---- MODULE Spec2Model ----
(***************************************************************************)
(* Model of src/internal/gpk.py: the check runner (Checks.run, Check,      *)
(* RunContext.run_script, ErrorCatcher), the SIGINT handler, the child     *)
(* process and the BackgroundPipeReader thread.                            *)
(*                                                                         *)
(* Strings are sequences of characters.  A process is a record of procs,   *)
(* named by its index (its pid).  The pipe, the reader thread and its      *)
(* buffer are kept for the process of the run_script call in progress      *)
(* only: a reader that run_script leaves behind unjoined writes to a       *)
(* buffer nobody reads again.                                              *)
(*                                                                         *)
(* Three more specifications share the variables: SpecClient (a client     *)
(* that calls the methods of Check itself), SpecFilter (Check._diff_errors *)
(* on two given outputs) and SpecResolve (find_checks, from the changed    *)
(* files and the PRECOMMIT files to the list of Checks).  Paths, patterns  *)
(* and outputs are sequences of characters too.                            *)
(***************************************************************************)
EXTENDS Integers, Sequences, FiniteSets, TLC

\* ---- bounds of the model ----
MaxChecks == 2      \* number of Checks in the CheckSet
MaxOut == 1         \* characters a child writes to its standard output
MaxSignals == 1     \* SIGINTs delivered during one run
MaxCalls == 2       \* calls of Check methods made by a client other than Checks.run
MaxLines == 3       \* lines of an output given to Check._diff_errors
MaxFiles == 2       \* changed files given to find_checks
MaxSegments == 2    \* path segments of a changed file
MaxRules == 1       \* rules of a PRECOMMIT file
MaxRecursion == 4   \* frames of all_directories before the interpreter's recursion limit

\* ---- program constants ----
ReadChunk == 4096   \* BackgroundPipeReader.run: self.fd.read(4096)
KilledCode == -9    \* returncode of a child ended by p.kill() (SIGKILL)

Checkers == {"A", "B"}          \* checker names (rule['check'])
Chars == {"a", "\n"}            \* characters of a checker's output
ExitCodes == {0, 1}             \* exit codes of a child that ends by itself

VARIABLES
    checks,            \* Checks.checks: the list of Check objects, as their rule/file facts
    deps_scripts,      \* the checkers whose <checker>-deps script exists (script_exists)
    driver,            \* who calls the Check methods: "Checks.run" or "client"
    interrupted,       \* global interrupted
    OPEN_PROCESSES,    \* global OPEN_PROCESSES (list of pids)
    procs,             \* every process launched so far: [st, rc]
    pipe,              \* stdout pipe of the current child: written, not yet read
    buffer,            \* BackgroundPipeReader.buffer of the current call
    written,           \* everything the current child has written to stdout
    reader,            \* reader thread of the current call: "none", "running", "done"
    phase,             \* Checks.run: "prereq", "exec", "done", "aborted"
    pc,                \* position of the main thread
    idx,               \* index of the Check being handled
    call,              \* which run_script call is in progress: "none", "deps", "old", "new"
    old_errors,        \* Check.run: old_errors
    prereqs_checked,   \* RunContext.prereqs_checked
    satisfied,         \* Check.prerequisite_satisfied, per Check
    errors,            \* RunContext.errors
    warnings,          \* "taking a long time" warnings of the current run_script call
    nsig,              \* SIGINTs delivered so far
    ncalls,            \* calls a client has made of the Check methods
    runlog,            \* history: every Popen attempted
    entered,           \* history: every error_catcher block entered, <<phase, Check>>
    raised,            \* history: every exception that left the block of a Check
    killed,            \* history: the calls whose running child the handler killed
    last,              \* history: how the run_script call that has just ended, ended
                       \* (at: where it ended: "popen", "check" (lines 322-328) or,
                       \* by an exception of the signal handler, "handler")
    old_output,        \* _diff_errors: the argument old_errors
    new_output,        \* _diff_errors: the argument new_errors
    changed_files,     \* find_checks: the argument changed_files (a list of paths)
    precommits,        \* the PRECOMMIT files under root_dir, by directory
    directories,       \* find_checks: directories
    todo,              \* find_checks: the directories the generators have not reached yet
    found,             \* find_checks: the (rule, filename) tuples turned into Checks so far
    failure            \* the exception that left find_checks, if any

vars == <<checks, deps_scripts, driver, interrupted, OPEN_PROCESSES, procs, pipe,
          buffer, written, reader, phase, pc, idx, call, old_errors,
          prereqs_checked, satisfied, errors, warnings, nsig, ncalls, runlog, entered, raised, killed, last,
          old_output, new_output, changed_files, precommits, directories, todo, found, failure>>

inputs == <<old_output, new_output, changed_files, precommits>>
resolution == <<directories, todo, found, failure>>
config == <<checks, deps_scripts, driver, inputs, resolution>>
child == <<procs, pipe, written>>
thread == <<buffer, reader>>
context == <<prereqs_checked, satisfied, errors>>
history == <<entered, raised, killed>>

\* ---- helpers ----
Min(a, b) == IF a < b THEN a ELSE b

Take(s, n) == SubSeq(s, 1, n)

Drop(s, n) == SubSeq(s, n + 1, Len(s))

\* list.remove that removes nothing
RemoveNothing(s, x) == s

RemoveFirst(s, x) ==
    LET hit == {i \in 1..Len(s) : s[i] = x}
        k == CHOOSE i \in hit : \A j \in hit : i <= j
    IN  Take(s, k - 1) \o Drop(s, k)

Range(s) == {s[i] : i \in 1..Len(s)}

\* the element of a one-element set: {F(x) : x \in {e}} evaluates e once
The(S) == CHOOSE x \in S : TRUE

NoResult == [call |-> "none", check |-> 0, outcome |-> "none", out |-> <<>>,
             written |-> <<>>, interrupted |-> FALSE, at |-> "none", rc |-> 0,
             warnings |-> 0]
\* ---- Check._diff_errors: the incremental error filter ----
Whitespace == {" ", "\t", "\n", "\r"}

\* str.split('\n')
RECURSIVE Split(_)
Split(s) ==
    IF \A i \in 1..Len(s) : s[i] # "\n" THEN <<s>>
    ELSE LET k == CHOOSE i \in 1..Len(s) :
                      s[i] = "\n" /\ \A j \in 1..(i - 1) : s[j] # "\n"
         IN  <<Take(s, k - 1)>> \o Split(Drop(s, k))

\* '\n'.join(lines)
RECURSIVE JoinLines(_)
JoinLines(lines) ==
    IF lines = <<>> THEN <<>>
    ELSE IF Len(lines) = 1 THEN lines[1]
    ELSE lines[1] \o <<"\n">> \o JoinLines(Tail(lines))

\* isjunk=lambda x: not x.strip()
IsJunk(line) == \A i \in 1..Len(line) : line[i] \in Whitespace

\* difflib.SequenceMatcher.find_longest_match(alo, ahi, blo, bhi), indices from 0.
\* The lines of b that are junk are not in b2j, so the block is first sought
\* among the other lines, then extended over equal lines on both sides: first
\* over lines that are not junk, then over junk ones.  (The autojunk heuristic
\* applies to sequences of 200 lines and more.)
RECURSIVE RunLen(_, _, _, _, _, _)
RunLen(a, b, alo, blo, i, j) ==
    IF i < alo \/ j < blo \/ a[i + 1] # b[j + 1] \/ IsJunk(b[j + 1]) THEN 0
    ELSE 1 + RunLen(a, b, alo, blo, i - 1, j - 1)

RECURSIVE ExtendLeft(_, _, _, _, _, _)
ExtendLeft(a, b, alo, blo, m, junk) ==
    IF /\ m.i > alo /\ m.j > blo
       /\ IsJunk(b[m.j]) = junk
       /\ a[m.i] = b[m.j]
    THEN ExtendLeft(a, b, alo, blo, [i |-> m.i - 1, j |-> m.j - 1, k |-> m.k + 1], junk)
    ELSE m

RECURSIVE ExtendRight(_, _, _, _, _, _)
ExtendRight(a, b, ahi, bhi, m, junk) ==
    IF /\ m.i + m.k < ahi /\ m.j + m.k < bhi
       /\ IsJunk(b[m.j + m.k + 1]) = junk
       /\ a[m.i + m.k + 1] = b[m.j + m.k + 1]
    THEN ExtendRight(a, b, ahi, bhi, [m EXCEPT !.k = m.k + 1], junk)
    ELSE m

FindLongestMatch(a, b, alo, ahi, blo, bhi) ==
    LET ends == (alo..(ahi - 1)) \X (blo..(bhi - 1))
        len(e) == RunLen(a, b, alo, blo, e[1], e[2])
        hits == {e \in ends : len(e) > 0}
        Before(e, f) == e[1] < f[1] \/ (e[1] = f[1] /\ e[2] <= f[2])
        best == CHOOSE e \in hits :
                    \A f \in hits : \/ len(f) < len(e)
                                    \/ (len(f) = len(e) /\ Before(e, f))
        Block(e, k) == [i |-> e[1] - k + 1, j |-> e[2] - k + 1, k |-> k]
        start == IF hits = {} THEN {[i |-> alo, j |-> blo, k |-> 0]}
                 ELSE {Block(e, len(e)) : e \in {best}}
    IN  The({ExtendRight(a, b, ahi, bhi, m3, TRUE) : m3 \in
            {ExtendLeft(a, b, alo, blo, m2, TRUE) : m2 \in
            {ExtendRight(a, b, ahi, bhi, m1, FALSE) : m1 \in
            {ExtendLeft(a, b, alo, blo, m0, FALSE) : m0 \in start}}}})

\* difflib.SequenceMatcher.get_matching_blocks, without the final sentinel:
\* the longest match of the window, then the windows left and right of it.
RECURSIVE MatchingBlocks(_, _, _, _, _, _)
MatchingBlocks(a, b, alo, ahi, blo, bhi) ==
    LET Around(m) ==
            IF m.k = 0 THEN <<>>
            ELSE (IF alo < m.i /\ blo < m.j
                  THEN MatchingBlocks(a, b, alo, m.i, blo, m.j) ELSE <<>>)
                 \o <<m>> \o
                 (IF m.i + m.k < ahi /\ m.j + m.k < bhi
                  THEN MatchingBlocks(a, b, m.i + m.k, ahi, m.j + m.k, bhi) ELSE <<>>)
    IN  The({Around(m) : m \in {FindLongestMatch(a, b, alo, ahi, blo, bhi)}})

\* difflib.SequenceMatcher.get_opcodes: (tag, i1, i2, j1, j2), from the blocks.
RECURSIVE OpcodesFrom(_, _, _)
OpcodesFrom(blocks, i, j) ==
    IF blocks = <<>> THEN <<>>
    ELSE LET m == Head(blocks)
             tag == IF i < m.i /\ j < m.j THEN "replace"
                    ELSE IF i < m.i THEN "delete"
                    ELSE IF j < m.j THEN "insert" ELSE ""
         IN  (IF tag # "" THEN <<[tag |-> tag, a0 |-> i, a1 |-> m.i, b0 |-> j, b1 |-> m.j]>>
              ELSE <<>>)
             \o (IF m.k > 0
                 THEN <<[tag |-> "equal", a0 |-> m.i, a1 |-> m.i + m.k,
                         b0 |-> m.j, b1 |-> m.j + m.k]>>
                 ELSE <<>>)
             \o OpcodesFrom(Tail(blocks), m.i + m.k, m.j + m.k)

GetOpcodes(a, b) ==
    The({OpcodesFrom(blocks \o <<[i |-> Len(a), j |-> Len(b), k |-> 0]>>, 0, 0) :
            blocks \in {MatchingBlocks(a, b, 0, Len(a), 0, Len(b))}})

\* the loop with `if op != 'delete'`
RECURSIVE AddedLinesNotDelete(_, _)
AddedLinesNotDelete(ops, new_lines) ==
    IF ops = <<>> THEN <<>>
    ELSE (IF Head(ops).tag # "delete"
          THEN SubSeq(new_lines, Head(ops).b0 + 1, Head(ops).b1) ELSE <<>>)
         \o AddedLinesNotDelete(Tail(ops), new_lines)

\* the loop with `if op == 'insert'`
RECURSIVE AddedLinesInsertOnly(_, _)
AddedLinesInsertOnly(ops, new_lines) ==
    IF ops = <<>> THEN <<>>
    ELSE (IF Head(ops).tag = "insert"
          THEN SubSeq(new_lines, Head(ops).b0 + 1, Head(ops).b1) ELSE <<>>)
         \o AddedLinesInsertOnly(Tail(ops), new_lines)

\* the loop of _diff_errors over the opcodes: added.extend(new_lines[b0:b1])
RECURSIVE AddedLines(_, _)
AddedLines(ops, new_lines) ==
    IF ops = <<>> THEN <<>>
    ELSE (IF Head(ops).tag \in {"insert", "replace"}
          THEN SubSeq(new_lines, Head(ops).b0 + 1, Head(ops).b1) ELSE <<>>)
         \o AddedLines(Tail(ops), new_lines)

\* Check._diff_errors(old_errors, new_errors): whether CheckFailedError is
\* raised, and its report.
DiffErrors(old, new) ==
    IF old = <<>>
    THEN [raised |-> new # <<>>, report |-> new]
    ELSE The({[raised |-> added # <<>>, report |-> JoinLines(added)] :
                 added \in {The({AddedLines(ops, new_lines) :
                                    ops \in {GetOpcodes(old_lines, new_lines)}}) :
                               old_lines \in {Split(old)}, new_lines \in {Split(new)}}})
\* ---- the run: state after construction ----
\* _diff_errors is called by Check.run only
NoFilter == old_output = <<>> /\ new_output = <<>>

\* no exception has left find_checks
NoFailure == [type |-> "none", file |-> <<>>, message |-> "none"]

\* find_checks has returned the Checks of the run
NoResolution ==
    /\ changed_files = <<>>
    /\ precommits = <<>>
    /\ directories = {}
    /\ todo = {}
    /\ found = <<>>
    /\ failure = NoFailure

CheckFacts == [check : Checkers, no_new : BOOLEAN, old_exists : BOOLEAN]

\* Check.__init__, RunContext.__init__, the module's globals (lines 30-31)
InitState ==
    /\ checks \in [1..MaxChecks -> CheckFacts]
    /\ checks[1].check = "A"      \* the names are interchangeable
    /\ deps_scripts \in SUBSET {checks[c].check : c \in 1..MaxChecks}
    /\ interrupted = FALSE
    /\ OPEN_PROCESSES = <<>>
    /\ procs = <<>>
    /\ pipe = <<>>
    /\ buffer = <<>>
    /\ written = <<>>
    /\ reader = "none"
    /\ idx = 1
    /\ call = "none"
    /\ old_errors = <<>>
    /\ prereqs_checked = <<>>
    /\ satisfied = [c \in 1..MaxChecks |-> FALSE]
    /\ errors = <<>>
    /\ warnings = 0
    /\ nsig = 0
    /\ ncalls = 0
    /\ runlog = <<>>
    /\ entered = <<>>
    /\ raised = <<>>
    /\ killed = {}
    /\ last = NoResult
    /\ NoFilter
    /\ NoResolution

\* Checks.run(context) is called once
Init ==
    /\ InitState
    /\ driver = "Checks.run"
    /\ phase = "prereq"
    /\ pc = "loop"

\* ---- ErrorCatcher ----
\* __exit__ without `return True`: the error is recorded and propagates
ErrorCatcherPropagates(type, value, errs) ==
    IF type = "Aborted" THEN [suppress |-> FALSE, errors |-> errs]
    ELSE IF type # "none" THEN [suppress |-> FALSE, errors |-> Append(errs, value)]
    ELSE [suppress |-> TRUE, errors |-> errs]

\* __exit__ without `if type is Aborted: return False`
ErrorCatcherCatchesAborted(type, value, errs) ==
    IF type # "none" THEN [suppress |-> TRUE, errors |-> Append(errs, value)]
    ELSE [suppress |-> TRUE, errors |-> errs]

\* ErrorCatcher.__exit__(type, value, traceback): whether the exception is
\* suppressed, and context.errors afterwards.  type "none": no exception.
ErrorCatcherExit(type, value, errs) ==
    IF type = "Aborted" THEN [suppress |-> FALSE, errors |-> errs]
    ELSE IF type # "none" THEN [suppress |-> TRUE, errors |-> Append(errs, value)]
    ELSE [suppress |-> TRUE, errors |-> errs]

\* The `with context.error_catcher()` block of Check c is left with an exception
\* of the given type (or none): the loop of Checks.run goes on with the next
\* Check, or the exception leaves Checks.run.
LeaveCatcher(c, type, report) ==
    LET value == [type |-> type, check |-> c, phase |-> phase, report |-> report]
        r == ErrorCatcherExit(type, value, errors)
    IN  /\ errors' = r.errors
        /\ raised' = (IF type = "none" THEN raised
                      ELSE Append(raised, [type |-> type, check |-> c, phase |-> phase,
                                           call |-> call]))
        /\ call' = "none"
        /\ old_errors' = <<>>
        /\ IF r.suppress
           THEN /\ phase' = phase
                /\ IF driver = "Checks.run"
                   THEN pc' = "loop" /\ idx' = c + 1
                   ELSE pc' = "client" /\ idx' = c
           ELSE /\ phase' = "aborted"
                /\ pc' = "end"
                /\ idx' = c

\* ---- Check ----
\* dict assignment d[k] = v
Put(d, k, v) == [x \in DOMAIN d \cup {k} |-> IF x = k THEN v ELSE d[x]]

\* check_prerequisites without the memo: the script is looked for every time
CheckPrerequisitesNoMemo(c) ==
    LET check_script == checks[c].check
    IN  IF check_script \notin deps_scripts
        THEN /\ prereqs_checked' = Put(prereqs_checked, check_script, TRUE)
             /\ satisfied' = [satisfied EXCEPT ![c] = prereqs_checked'[check_script]]
             /\ LeaveCatcher(c, "none", <<>>)
        ELSE /\ prereqs_checked' = Put(prereqs_checked, check_script, FALSE)
             /\ call' = "deps"
             /\ pc' = "popen"
             /\ idx' = c
             /\ UNCHANGED <<satisfied, errors, old_errors, phase, raised>>

\* Check.check_prerequisites(context), up to its return or its call of run_script
CheckPrerequisites(c) ==
    LET check_script == checks[c].check
    IN  IF check_script \notin DOMAIN prereqs_checked
        THEN IF check_script \notin deps_scripts
             THEN /\ prereqs_checked' = Put(prereqs_checked, check_script, TRUE)
                  /\ satisfied' = [satisfied EXCEPT ![c] = prereqs_checked'[check_script]]
                  /\ LeaveCatcher(c, "none", <<>>)
             ELSE /\ prereqs_checked' = Put(prereqs_checked, check_script, FALSE)
                  /\ call' = "deps"
                  /\ pc' = "popen"
                  /\ idx' = c
                  /\ UNCHANGED <<satisfied, errors, old_errors, phase, raised>>
        ELSE /\ satisfied' = [satisfied EXCEPT ![c] = prereqs_checked[check_script]]
             /\ LeaveCatcher(c, "none", <<>>)
             /\ UNCHANGED prereqs_checked

\* the condition without context.old_source.exists(self.filename)
RunsOldSourceNoExists(c) == checks[c].no_new

\* Check.run: if no_new and context.old_source.exists(self.filename)
RunsOldSource(c) == checks[c].no_new /\ checks[c].old_exists

\* Check.run without its first statement (if not self.prerequisite_satisfied)
CheckRunUnguarded(c) ==
    /\ call' = (IF RunsOldSource(c) THEN "old" ELSE "new")
    /\ pc' = "popen"
    /\ idx' = c
    /\ old_errors' = <<>>
    /\ UNCHANGED <<prereqs_checked, satisfied, errors, phase, raised>>

\* Check.run(context), up to its return or its first call of run_script
CheckRun(c) ==
    IF ~satisfied[c]
    THEN /\ LeaveCatcher(c, "none", <<>>)
         /\ UNCHANGED <<prereqs_checked, satisfied>>
    ELSE /\ call' = (IF RunsOldSource(c) THEN "old" ELSE "new")
         /\ pc' = "popen"
         /\ idx' = c
         /\ old_errors' = <<>>
         /\ UNCHANGED <<prereqs_checked, satisfied, errors, phase, raised>>

\* ---- Checks.run ----
\* first loop: with context.error_catcher(print_progress=False): check.check_prerequisites(context)
PrereqStep ==
    /\ driver = "Checks.run" /\ phase = "prereq" /\ pc = "loop"
    /\ idx <= Len(checks)
    /\ CheckPrerequisites(idx)
    /\ entered' = Append(entered, <<phase, idx>>)
    /\ UNCHANGED <<config, interrupted, OPEN_PROCESSES, child, thread, warnings,
                   nsig, ncalls, runlog, killed, last>>

\* Checks.run without `if context.errors: return`
ExecutionStartsAlways(errs) == TRUE

\* if context.errors: return
ExecutionStarts(errs) == errs = <<>>

PrereqDone ==
    /\ driver = "Checks.run" /\ phase = "prereq" /\ pc = "loop"
    /\ idx > Len(checks)
    /\ IF ExecutionStarts(errors)
       THEN phase' = "exec" /\ pc' = "loop" /\ idx' = 1
       ELSE phase' = "done" /\ pc' = "end" /\ idx' = idx
    /\ UNCHANGED <<config, interrupted, OPEN_PROCESSES, child, thread, call,
                   old_errors, context, warnings, nsig, ncalls, runlog, history, last>>

\* second loop: with context.error_catcher(): check.run(context)
ExecStep ==
    /\ driver = "Checks.run" /\ phase = "exec" /\ pc = "loop"
    /\ idx <= Len(checks)
    /\ CheckRun(idx)
    /\ entered' = Append(entered, <<phase, idx>>)
    /\ UNCHANGED <<config, interrupted, OPEN_PROCESSES, child, thread, warnings,
                   nsig, ncalls, runlog, killed, last>>

\* context.writer.done(), and Checks.run returns
ExecDone ==
    /\ driver = "Checks.run" /\ phase = "exec" /\ pc = "loop"
    /\ idx > Len(checks)
    /\ phase' = "done" /\ pc' = "end"
    /\ UNCHANGED <<config, interrupted, OPEN_PROCESSES, child, thread, idx, call,
                   old_errors, context, warnings, nsig, ncalls, runlog, history, last>>
\* ---- RunContext.run_script ----
CheckTimeout == 10  \* Check.run: timeout=10

\* the timeout argument of the call: check_prerequisites passes none
Timeout(c) == IF c = "deps" THEN "None" ELSE "set"

\* p of the run_script call in progress
CurrentProcess == Len(procs)

\* run_script returned out to Check.check_prerequisites or Check.run
Returns(out) ==
    CASE call = "deps" ->
            /\ prereqs_checked' = Put(prereqs_checked, checks[idx].check, TRUE)
            /\ satisfied' = [satisfied EXCEPT ![idx] = prereqs_checked'[checks[idx].check]]
            /\ LeaveCatcher(idx, "none", <<>>)
      [] call = "old" ->
            /\ old_errors' = out
            /\ call' = "new"
            /\ pc' = "popen"
            /\ UNCHANGED <<phase, idx, context, raised>>
      [] call = "new" ->
            /\ \E d \in {DiffErrors(old_errors, out)} :
                  LeaveCatcher(idx, IF d.raised THEN "CheckFailedError" ELSE "none", d.report)
            /\ UNCHANGED <<prereqs_checked, satisfied>>

\* run_script raised an exception of the given type
Raises(type) ==
    /\ LeaveCatcher(idx, type, <<>>)
    /\ UNCHANGED <<prereqs_checked, satisfied>>

\* the end of a run_script call, for its caller
Complete(at, outcome, out, flag) ==
    /\ last' = [call |-> call, check |-> idx, outcome |-> outcome, out |-> out,
                written |-> written, interrupted |-> flag,
                at |-> at,
                rc |-> IF pc \in {"join", "check"} THEN procs[CurrentProcess].rc ELSE 0,
                warnings |-> warnings]
    /\ pipe' = <<>>
    /\ buffer' = <<>>
    /\ written' = <<>>
    /\ reader' = "none"
    /\ warnings' = 0
    /\ IF outcome = "ok" THEN Returns(out) ELSE Raises(outcome)

\* p = subprocess.Popen(...), or its OSError, which run_script turns into RuntimeError
Popen ==
    /\ pc = "popen"
    /\ \E launched \in BOOLEAN :
          /\ runlog' = Append(runlog, [check |-> idx, call |-> call,
                                       interrupted |-> interrupted])
          /\ IF launched
             THEN /\ procs' = Append(procs, [st |-> "running", rc |-> 0])
                  /\ pc' = "append"
                  /\ last' = NoResult
                  /\ UNCHANGED <<pipe, written, thread, phase, idx, call, old_errors,
                                 context, warnings, raised>>
             ELSE /\ Complete("popen", "RuntimeError", <<>>, interrupted)
                  /\ UNCHANGED procs
    /\ UNCHANGED <<config, interrupted, OPEN_PROCESSES, nsig, ncalls, entered, killed>>

\* OPEN_PROCESSES.append(p); reader = BackgroundPipeReader(p.stdout); reader.start()
Register ==
    /\ pc = "append"
    /\ OPEN_PROCESSES' = Append(OPEN_PROCESSES, CurrentProcess)
    /\ reader' = "running"
    /\ pc' = (IF Timeout(call) = "None" THEN "wait" ELSE "poll")
    /\ UNCHANGED <<config, interrupted, child, buffer, phase, idx, call, old_errors,
                   context, warnings, nsig, ncalls, runlog, history, last>>

\* the polling loop ends because p.poll() finds the child ended; p.wait() then
\* returns at once
PollEnded ==
    /\ pc = "poll"
    /\ procs[CurrentProcess].st = "exited"
    /\ procs' = [procs EXCEPT ![CurrentProcess].st = "reaped"]
    /\ pc' = "check"
    /\ UNCHANGED <<config, interrupted, OPEN_PROCESSES, pipe, written, thread, phase,
                   idx, call, old_errors, context, warnings, nsig, ncalls, runlog, history, last>>

\* the polling loop ends because t_warning has passed, and p.poll() is still None:
\* self.writer.warn(...)
Warn ==
    /\ pc = "poll"
    /\ procs[CurrentProcess].st = "running"
    /\ warnings' = warnings + 1
    /\ pc' = "wait"
    /\ UNCHANGED <<config, interrupted, OPEN_PROCESSES, child, thread, phase, idx,
                   call, old_errors, context, nsig, ncalls, runlog, history, last>>

\* p.wait() returns: of the branch without timeout (reader.join() follows), or
\* after the warning
Wait ==
    /\ pc = "wait"
    /\ procs[CurrentProcess].st = "exited"
    /\ procs' = [procs EXCEPT ![CurrentProcess].st = "reaped"]
    /\ pc' = (IF Timeout(call) = "None" THEN "join" ELSE "check")
    /\ UNCHANGED <<config, interrupted, OPEN_PROCESSES, pipe, written, thread, phase,
                   idx, call, old_errors, context, warnings, nsig, ncalls, runlog, history, last>>

\* reader.join() returns
ReaderJoin ==
    /\ pc = "join"
    /\ reader = "done"
    /\ pc' = "check"
    /\ UNCHANGED <<config, interrupted, OPEN_PROCESSES, child, thread, phase, idx,
                   call, old_errors, context, warnings, nsig, ncalls, runlog, history, last>>

\* p goes out of scope: of a process that was waited for, the model keeps no
\* exit code
Collected(ps, p) ==
    IF ps[p].st = "reaped" THEN [ps EXCEPT ![p].rc = 0] ELSE ps

\* lines 322-328: what the call does once the child has been waited for
RunScriptOutcome(returncode, ignore_exitcode, flag) ==
    IF returncode # 0 /\ ~ignore_exitcode THEN "RuntimeError"
    ELSE IF flag THEN "Aborted"
    ELSE "ok"

\* lines 322-330: the exit code, the interrupted flag, return reader.str();
\* finally OPEN_PROCESSES.remove(p)
Finish ==
    /\ pc = "check"
    /\ OPEN_PROCESSES' = RemoveFirst(OPEN_PROCESSES, CurrentProcess)
    /\ Complete("check", RunScriptOutcome(procs[CurrentProcess].rc, FALSE, interrupted),
                buffer, interrupted)
    /\ procs' = Collected(procs, CurrentProcess)
    /\ UNCHANGED <<config, interrupted, nsig, ncalls, runlog, entered, killed>>

\* ---- the child process ----
ChildWrites ==
    /\ procs # <<>>
    /\ procs[CurrentProcess].st = "running"
    /\ Len(written) < MaxOut
    /\ \E ch \in Chars :
          /\ pipe' = Append(pipe, ch)
          /\ written' = Append(written, ch)
    /\ UNCHANGED <<config, interrupted, OPEN_PROCESSES, procs, thread, phase, pc, idx,
                   call, old_errors, context, warnings, nsig, ncalls, runlog, history, last>>

ChildExits ==
    /\ procs # <<>>
    /\ procs[CurrentProcess].st = "running"
    /\ \E rc \in ExitCodes :
          procs' = [procs EXCEPT ![CurrentProcess] = [st |-> "exited", rc |-> rc]]
    /\ UNCHANGED <<config, interrupted, OPEN_PROCESSES, pipe, written, thread, phase,
                   pc, idx, call, old_errors, context, warnings, nsig, ncalls, runlog,
                   history, last>>

\* ---- BackgroundPipeReader.run ----
\* x = self.fd.read(4096) with data in the pipe; self.buffer.write(x)
ReaderReads ==
    /\ reader = "running"
    /\ pipe # <<>>
    /\ LET n == Min(Len(pipe), ReadChunk)
       IN  /\ buffer' = buffer \o Take(pipe, n)
           /\ pipe' = Drop(pipe, n)
    /\ UNCHANGED <<config, interrupted, OPEN_PROCESSES, procs, written, reader, phase,
                   pc, idx, call, old_errors, context, warnings, nsig, ncalls, runlog,
                   history, last>>

\* self.fd.read(4096) returns '' : the pipe is empty and the child has ended
ReaderEnds ==
    /\ reader = "running"
    /\ pipe = <<>>
    /\ procs[CurrentProcess].st # "running"
    /\ reader' = "done"
    /\ UNCHANGED <<config, interrupted, OPEN_PROCESSES, child, buffer, phase, pc, idx,
                   call, old_errors, context, warnings, nsig, ncalls, runlog, history, last>>

\* ---- signal_handler ----
\* p.kill() of a process that runs; a process that has ended keeps its exit code
Kill(ps, p) ==
    IF ps[p].st = "running"
    THEN [ps EXCEPT ![p] = [st |-> "exited", rc |-> KilledCode]]
    ELSE ps

\* for p in OPEN_PROCESSES: p.kill()
RECURSIVE KillAll(_, _)
KillAll(ps, open) ==
    IF open = <<>> THEN ps ELSE KillAll(Kill(ps, Head(open)), Tail(open))

\* positions of the main thread inside the try blocks of run_script, after
\* OPEN_PROCESSES.append(p)
InTry == {"poll", "wait", "join", "check"}

\* SIGINT: the handler runs in the main thread, between two of its steps.
\* p.kill() of a process that was already waited for signals a pid that is no
\* longer the child's: depending on the library version and on the system it
\* does nothing, or raises OSError; the OSError leaves the handler into
\* run_script, whose finally clause unregisters p and whose except clause
\* raises RuntimeError.
Signal ==
    /\ nsig < MaxSignals
    /\ pc # "end"
    /\ nsig' = nsig + 1
    /\ interrupted' = TRUE
    /\ killed' = killed \cup {[check |-> idx, call |-> call] :
                                p \in {q \in Range(OPEN_PROCESSES) :
                                           procs[q].st = "running"}}
    /\ \E k \in 0..Len(OPEN_PROCESSES) :
          IF k = 0
          THEN /\ procs' = KillAll(procs, OPEN_PROCESSES)
               /\ UNCHANGED <<OPEN_PROCESSES, pipe, written, thread, phase, pc, idx,
                              call, old_errors, context, warnings, raised, last>>
          ELSE /\ procs[OPEN_PROCESSES[k]].st = "reaped"
               /\ pc \in InTry
               /\ procs' = Collected(KillAll(procs, Take(OPEN_PROCESSES, k - 1)),
                                      CurrentProcess)
               /\ OPEN_PROCESSES' = RemoveFirst(OPEN_PROCESSES, CurrentProcess)
               /\ Complete("handler", "RuntimeError", <<>>, TRUE)
    /\ UNCHANGED <<config, ncalls, runlog, entered>>

\* ---- the run ----
ChecksRun == PrereqStep \/ PrereqDone \/ ExecStep \/ ExecDone

RunScript == Popen \/ Register \/ PollEnded \/ Warn \/ Wait \/ ReaderJoin \/ Finish

Environment == ChildWrites \/ ChildExits \/ ReaderReads \/ ReaderEnds \/ Signal

Next == ChecksRun \/ RunScript \/ Environment

Spec == Init /\ [][Next]_vars

TypeOK ==
    /\ phase \in {"prereq", "exec", "done", "aborted", "client", "resolve"}
    /\ pc \in {"loop", "client", "popen", "append", "poll", "wait", "join", "check", "end", "diff",
              "directories", "precommits", "returned", "raised"}
    /\ call \in {"none", "deps", "old", "new"}
    /\ reader \in {"none", "running", "done"}
    /\ interrupted \in BOOLEAN
    /\ \A i \in 1..Len(procs) : procs[i].st \in {"running", "exited", "reaped"}
    /\ Len(written) <= MaxOut
\* ---- a client that calls the methods of Check itself ----
\* The Checks are as constructed; the client calls check_prerequisites and run
\* of any Check, in any order, each inside an error_catcher block.
InitClient ==
    /\ InitState
    /\ driver = "client"
    /\ phase = "client"
    /\ pc = "client"

ClientCheckPrerequisites ==
    /\ driver = "client" /\ pc = "client"
    /\ ncalls < MaxCalls
    /\ ncalls' = ncalls + 1
    /\ \E c \in 1..Len(checks) :
          /\ CheckPrerequisites(c)
          /\ entered' = Append(entered, <<"prereq", c>>)
    /\ UNCHANGED <<config, interrupted, OPEN_PROCESSES, child, thread, warnings,
                   nsig, runlog, killed, last>>

ClientCheckRun ==
    /\ driver = "client" /\ pc = "client"
    /\ ncalls < MaxCalls
    /\ ncalls' = ncalls + 1
    /\ \E c \in 1..Len(checks) :
          /\ CheckRun(c)
          /\ entered' = Append(entered, <<"exec", c>>)
    /\ UNCHANGED <<config, interrupted, OPEN_PROCESSES, child, thread, warnings,
                   nsig, runlog, killed, last>>

NextClient == ClientCheckPrerequisites \/ ClientCheckRun \/ RunScript \/ Environment

SpecClient == InitClient /\ [][NextClient]_vars

\* ---- Check._diff_errors on its own ----
\* The outputs of a checker: up to MaxLines lines, joined by newlines.
Line1 == <<"l", "i", "n", "e", "1">>
Line2 == <<"l", "i", "n", "e", "2">>

OutputLines == {Line1, Line2, <<>>, <<" ">>}

Outputs == {JoinLines(ls) : ls \in UNION {[1..n -> OutputLines] : n \in 1..MaxLines}}

\* no run of Checks.run, no run_script call
NoRun ==
    /\ deps_scripts = {}
    /\ interrupted = FALSE
    /\ OPEN_PROCESSES = <<>>
    /\ procs = <<>>
    /\ pipe = <<>>
    /\ buffer = <<>>
    /\ written = <<>>
    /\ reader = "none"
    /\ idx = 1
    /\ call = "none"
    /\ old_errors = <<>>
    /\ prereqs_checked = <<>>
    /\ satisfied = [c \in 1..MaxChecks |-> FALSE]
    /\ errors = <<>>
    /\ warnings = 0
    /\ nsig = 0
    /\ ncalls = 0
    /\ runlog = <<>>
    /\ entered = <<>>
    /\ raised = <<>>
    /\ killed = {}
    /\ last = NoResult

\* a Check with no_new, and the two outputs its _diff_errors is called with
InitFilter ==
    /\ NoRun
    /\ NoResolution
    /\ checks = <<[check |-> "A", no_new |-> TRUE, old_exists |-> TRUE]>>
    /\ old_output \in Outputs
    /\ new_output \in Outputs
    /\ driver = "client"
    /\ phase = "client"
    /\ pc = "diff"

\* with context.error_catcher(): check._diff_errors(old_output, new_output)
DiffErrorsStep ==
    /\ driver = "client" /\ pc = "diff"
    /\ \E d \in {DiffErrors(old_output, new_output)} :
          LeaveCatcher(1, IF d.raised THEN "CheckFailedError" ELSE "none", d.report)
    /\ entered' = Append(entered, <<"exec", 1>>)
    /\ UNCHANGED <<config, interrupted, OPEN_PROCESSES, child, thread, prereqs_checked,
                   satisfied, warnings, nsig, ncalls, runlog, killed, last>>

NextFilter == DiffErrorsStep

SpecFilter == InitFilter /\ [][NextFilter]_vars

\* str.strip()
RECURSIVE Strip(_)
Strip(s) ==
    IF s = <<>> THEN s
    ELSE IF Head(s) \in Whitespace THEN Strip(Tail(s))
    ELSE IF s[Len(s)] \in Whitespace THEN Strip(Take(s, Len(s) - 1))
    ELSE s

\* RunContext.report: the lines written for a CheckFailedError, without their
\* indentation: error.report.strip().split('\n')
ReportLines(report) == Split(Strip(report))

\* ---- find_checks: from the changed files to the Checks ----
\* str.split(sep) for a one-character separator
RECURSIVE SplitAt(_, _)
SplitAt(s, sep) ==
    IF \A i \in 1..Len(s) : s[i] # sep THEN <<s>>
    ELSE LET k == CHOOSE i \in 1..Len(s) :
                      s[i] = sep /\ \A j \in 1..(i - 1) : s[j] # sep
         IN  <<Take(s, k - 1)>> \o SplitAt(Drop(s, k), sep)

\* sep.join(parts)
RECURSIVE JoinWith(_, _)
JoinWith(parts, sep) ==
    IF parts = <<>> THEN <<>>
    ELSE IF Len(parts) = 1 THEN parts[1]
    ELSE parts[1] \o <<sep>> \o JoinWith(Tail(parts), sep)

\* str.rstrip('/')
RECURSIVE RStripSlash(_)
RStripSlash(s) ==
    IF s # <<>> /\ s[Len(s)] = "/" THEN RStripSlash(Take(s, Len(s) - 1)) ELSE s

\* posixpath.dirname(p)
Dirname(p) ==
    LET slashes == {i \in 1..Len(p) : p[i] = "/"}
        i == IF slashes = {} THEN 0 ELSE CHOOSE k \in slashes : \A j \in slashes : j <= k
        head == Take(p, i)
    IN  IF head # <<>> /\ \E k \in 1..Len(head) : head[k] # "/"
        THEN RStripSlash(head) ELSE head

\* posixpath.join(a, b)
PathJoin(a, b) ==
    IF b # <<>> /\ Head(b) = "/" THEN b
    ELSE IF a = <<>> \/ a[Len(a)] = "/" THEN a \o b
    ELSE a \o <<"/">> \o b

\* all_directories(filename), with `frames` calls left before the interpreter
\* gives up (RuntimeError: maximum recursion depth exceeded)
RECURSIVE AllDirectories(_, _)
AllDirectories(filename, frames) ==
    IF frames = 0 THEN [ok |-> FALSE, dirs |-> <<>>]
    ELSE IF filename = <<".">> \/ filename = <<>> THEN [ok |-> TRUE, dirs |-> <<>>]
    ELSE LET parent == Dirname(filename)
             rest == AllDirectories(parent, frames - 1)
         IN  [ok |-> rest.ok, dirs |-> <<Dirname(filename)>> \o rest.dirs]

\* non_empty(xs): filter(None, xs)
NonEmpty(xs) == SelectSeq(xs, LAMBDA x : x # <<>>)

\* fnmatch.fnmatchcase(name, pat), for patterns made of characters, * and ?
RECURSIVE FnMatch(_, _)
FnMatch(name, pat) ==
    IF pat = <<>> THEN name = <<>>
    ELSE IF Head(pat) = "*"
         THEN \E k \in 0..Len(name) : FnMatch(Drop(name, k), Tail(pat))
    ELSE IF Head(pat) = "?"
         THEN name # <<>> /\ FnMatch(Tail(name), Tail(pat))
    ELSE name # <<>> /\ Head(name) = Head(pat) /\ FnMatch(Tail(name), Tail(pat))

\* deep_fnmatch(pattern, filename)
DeepFnmatch(pattern, filename) ==
    LET patterns == SplitAt(pattern, "/")
        filenames == SplitAt(filename, "/")
    IN  /\ Len(patterns) = Len(filenames)
        /\ \A k \in 1..Len(patterns) : FnMatch(filenames[k], patterns[k])

\* pattern_matches(pattern, file_spec).  A pattern is [is_str, strings]: a
\* string (strings has that one string) or a list of strings.
PatternMatches(pattern, file_spec) ==
    LET list == IF pattern.is_str THEN <<pattern.strings[1]>> ELSE pattern.strings
    IN  \E k \in 1..Len(list) : DeepFnmatch(list[k], file_spec)

\* possible_matches that does not compare the prefix with the path
PossibleMatchesAnyPrefix(prefix, filename) ==
    LET prefix_parts == NonEmpty(SplitAt(prefix, "/"))
        parts == NonEmpty(SplitAt(filename, "/"))
    IN  [k \in 1..(IF Len(parts) > Len(prefix_parts)
                     THEN Len(parts) - Len(prefix_parts) ELSE 0) |->
            JoinWith(SubSeq(parts, Len(prefix_parts) + k, Len(parts)), "/")]

\* possible_matches(prefix, filename), as a list
PossibleMatches(prefix, filename) ==
    LET prefix_parts == NonEmpty(SplitAt(prefix, "/"))
        parts == NonEmpty(SplitAt(filename, "/"))
    IN  IF \E k \in 1..Min(Len(prefix_parts), Len(parts)) : prefix_parts[k] # parts[k]
        THEN <<>>
        ELSE [k \in 1..(IF Len(parts) > Len(prefix_parts)
                          THEN Len(parts) - Len(prefix_parts) ELSE 0) |->
                 JoinWith(SubSeq(parts, Len(prefix_parts) + k, Len(parts)), "/")]

\* pattern_matches_anywhere(prefix, pattern, fname)
PatternMatchesAnywhere(prefix, pattern, fname) ==
    LET specs == PossibleMatches(prefix, fname)
    IN  \E k \in 1..Len(specs) : PatternMatches(pattern, specs[k])

\* validate_precommit(precommit): "ok", or the message of its RuntimeError
ValidatePrecommit(precommit) ==
    IF ~precommit.has_rules THEN "Precommit should have a 'rules' member"
    ELSE LET bad == {k \in 1..Len(precommit.rules) :
                        ~precommit.rules[k].has_pattern \/ ~precommit.rules[k].has_check}
         IN  IF bad = {} THEN "ok"
             ELSE LET k == CHOOSE i \in bad : \A j \in bad : i <= j
                  IN  IF ~precommit.rules[k].has_pattern
                      THEN "Rule should have a 'pattern' member"
                      ELSE "Rule should have a 'check' member"

\* apply_precommit(prefix, precommit, all_files): the set of (rule, filename)
\* tuples.  A rule is an object of the PRECOMMIT file loaded for this prefix: it
\* is named by the prefix and its index, next to what it says.
ApplyPrecommit(prefix, precommit, all_files) ==
    {[prefix |-> prefix, index |-> k, rule |-> precommit.rules[k], filename |-> all_files[i]] :
        <<k, i>> \in {x \in (1..Len(precommit.rules)) \X (1..Len(all_files)) :
                         PatternMatchesAnywhere(prefix, precommit.rules[x[1]].pattern,
                                                all_files[x[2]])}}

\* the orders in which a set is iterated
Orders(S) ==
    {o \in [1..Cardinality(S) -> S] : \A i, j \in 1..Cardinality(S) : i # j => o[i] # o[j]}

\* the files of the model: names, paths of up to MaxSegments names, written
\* relative, with a leading './', or absolute
Names == {<<"a">>, <<"a", "b">>}

PathForms == {<<>>, <<".", "/">>, <<"/">>}

Paths ==
    {form \o JoinWith(parts, "/") :
        form \in PathForms, parts \in UNION {[1..n -> Names] : n \in 1..MaxSegments}}

\* root_dir, and the name of the manifest file
RootDir == <<"/", "r">>

Precommit == <<"P", "R", "E", "C", "O", "M", "M", "I", "T">>

\* path.join(root_dir, d, 'PRECOMMIT')
PrecommitFile(d) == PathJoin(PathJoin(RootDir, d), Precommit)

\* the file a path names: its components, without the empty ones and '.'
Components(path) == SelectSeq(SplitAt(path, "/"), LAMBDA x : x # <<>> /\ x # <<".">>)

\* the rules and PRECOMMIT objects of the model
PatternStrings == {<<"a">>, <<"*", "b">>, <<"a", "/", "*">>}

Patterns ==
    {[is_str |-> TRUE, strings |-> <<p>>] : p \in PatternStrings}
        \cup {[is_str |-> FALSE, strings |-> <<<<"a">>, <<"*", "b">>>>]}

NoPattern == [is_str |-> TRUE, strings |-> <<<<>>>>]

Rules ==
    {[has_pattern |-> TRUE, pattern |-> p, has_check |-> hc, check |-> IF hc THEN "A" ELSE ""] :
        p \in Patterns, hc \in BOOLEAN}
    \cup {[has_pattern |-> FALSE, pattern |-> NoPattern, has_check |-> hc,
            check |-> IF hc THEN "A" ELSE ""] : hc \in BOOLEAN}

PrecommitObjects ==
    {[has_rules |-> FALSE, rules |-> <<>>]}
        \cup {[has_rules |-> TRUE, rules |-> rs] :
                 rs \in UNION {[1..n -> Rules] : n \in 0..MaxRules}}

\* the directories of the repository where a PRECOMMIT file may be
ManifestDirs == {<<>>, <<"a">>}

FileSystems ==
    {UNION {at[d] : d \in ManifestDirs} :
        at \in [ManifestDirs ->
                  {{}} \cup {{[file |-> Components(PrecommitFile(d)), object |-> o]} :
                                d \in ManifestDirs, o \in PrecommitObjects}]}

\* path.isfile(precommit)
IsFile(path) == \E m \in precommits : m.file = Components(path)

\* gcl.load(precommit_file)
Load(path) == (CHOOSE m \in precommits : m.file = Components(path)).object

InitResolve ==
    /\ NoRun
    /\ NoFilter
    /\ checks = <<>>
    /\ changed_files \in UNION {[1..n -> Paths] : n \in 1..MaxFiles}
    /\ precommits \in {fs \in FileSystems :
                          \A m, n \in fs : m.file = n.file => m = n}
    /\ directories = {}
    /\ todo = {}
    /\ found = <<>>
    /\ failure = NoFailure
    /\ driver = "find_checks"
    /\ phase = "resolve"
    /\ pc = "directories"

\* directories = set(d for f in changed_files for d in all_directories(f))
FindDirectories ==
    /\ pc = "directories"
    /\ LET walks == [i \in DOMAIN changed_files |->
                        AllDirectories(changed_files[i], MaxRecursion)]
       IN  IF \E i \in DOMAIN walks : ~walks[i].ok
           THEN /\ failure' = [type |-> "RuntimeError", file |-> <<>>,
                               message |-> "maximum recursion depth exceeded"]
                /\ pc' = "raised"
                /\ UNCHANGED <<directories, todo>>
           ELSE /\ directories' = UNION {Range(walks[i].dirs) : i \in DOMAIN walks}
                /\ todo' = directories'
                /\ pc' = "precommits"
                /\ UNCHANGED failure
    /\ UNCHANGED <<checks, deps_scripts, driver, inputs, found, interrupted, OPEN_PROCESSES,
                   child, thread, phase, idx, call, old_errors, context, warnings, nsig,
                   ncalls, runlog, history, last>>

\* actual_precommits passes over a directory without a PRECOMMIT file
NoPrecommit ==
    /\ pc = "precommits"
    /\ \E d \in todo :
          /\ ~IsFile(PrecommitFile(d))
          /\ todo' = todo \ {d}
    /\ UNCHANGED <<checks, deps_scripts, driver, inputs, directories, found, failure,
                   interrupted, OPEN_PROCESSES, child, thread, phase, pc, idx, call,
                   old_errors, context, warnings, nsig, ncalls, runlog, history, last>>

\* apply_precommit_file(prefix, precommit, changed_files, gpk_path) for the next
\* directory that has a PRECOMMIT file, and Check(*c) for each tuple it returns;
\* its RuntimeError leaves find_checks, and no Checks object is made
ApplyPrecommitFile ==
    /\ pc = "precommits"
    /\ \E d \in todo :
          LET precommit_file == PrecommitFile(d)
          IN  /\ IsFile(precommit_file)
              /\ LET precommit_obj == Load(precommit_file)
                     e == ValidatePrecommit(precommit_obj)
                 IN  IF e # "ok"
                     THEN /\ failure' = [type |-> "RuntimeError", file |-> precommit_file,
                                         message |-> e]
                          /\ pc' = "raised"
                          /\ found' = <<>>
                          /\ UNCHANGED todo
                     ELSE /\ \E o \in Orders(ApplyPrecommit(d, precommit_obj, changed_files)) :
                                found' = found \o o
                          /\ todo' = todo \ {d}
                          /\ UNCHANGED <<failure, pc>>
    /\ UNCHANGED <<checks, deps_scripts, driver, inputs, directories, interrupted,
                   OPEN_PROCESSES, child, thread, phase, idx, call, old_errors, context,
                   warnings, nsig, ncalls, runlog, history, last>>

\* return Checks([...]): the generators are exhausted
FindChecksReturns ==
    /\ pc = "precommits"
    /\ todo = {}
    /\ pc' = "returned"
    /\ UNCHANGED <<config, interrupted, OPEN_PROCESSES, child, thread, phase, idx, call,
                   old_errors, context, warnings, nsig, ncalls, runlog, history, last>>

NextResolve == FindDirectories \/ NoPrecommit \/ ApplyPrecommitFile \/ FindChecksReturns

SpecResolve == InitResolve /\ [][NextResolve]_vars

\* ---- what the histories say ----
CheckerOf(c) == checks[c].check

\* the Popens of a checker (not of a dependency script)
CheckerRuns == {i \in DOMAIN runlog : runlog[i].call \in {"old", "new"}}

\* the Popens of the checker of Check c against a tree
RunsOf(c, tree) == {i \in DOMAIN runlog : runlog[i].check = c /\ runlog[i].call = tree}

\* the Popens of the dependency script of a checker
DepsRuns(ck) ==
    {i \in DOMAIN runlog : runlog[i].call = "deps" /\ CheckerOf(runlog[i].check) = ck}

\* a run_script call made by Check c from the given place raised an exception
RaisedIn(c, place) ==
    \E k \in DOMAIN raised : raised[k].check = c /\ raised[k].call = place

AbortedRaised == \E k \in DOMAIN raised : raised[k].type = "Aborted"

\* the blocks entered in a phase are those of all the Checks, in order
AllEntered(ph) ==
    LET InPhase(e) == e[1] = ph
    IN  SelectSeq(entered, InPhase) = [c \in 1..Len(checks) |-> <<ph, c>>]

Brief(seq) == [i \in DOMAIN seq |-> <<seq[i].type, seq[i].check, seq[i].phase>>]

\* Checks.run has returned after its second loop
ExecutionPhaseOver ==
    /\ pc = "end" /\ phase = "done"
    /\ (errors = <<>> \/ errors[1].phase = "exec")

\* the dependency script of the checker of Check c was run and found failing
DepsFailed(c) ==
    \E k \in DOMAIN raised :
        /\ raised[k].call = "deps"
        /\ raised[k].type # "Aborted"
        /\ CheckerOf(raised[k].check) = CheckerOf(c)
\* ---- the claims ----

\* C1: once the child of a run_script call has been waited for, the call ends
\* with Aborted if the interrupted flag is set, whatever the exit code; it ends
\* with the RuntimeError of a nonzero exit code only if the flag is not set.
C1_InterruptedCallAborts ==
    last.at = "check" =>
        /\ last.interrupted => last.outcome = "Aborted"
        /\ last.outcome = "RuntimeError" => (~last.interrupted /\ last.rc # 0)

\* C2: when the handler has killed the running child of a checker, nothing is
\* launched once the flag is set, and the run does not end as a normal run
\* does: it ends aborted.
C2_InterruptEndsRun ==
    (\E k \in killed : k.call \in {"old", "new"}) =>
        /\ \A i \in DOMAIN runlog : ~runlog[i].interrupted
        /\ pc = "end" => phase = "aborted"

\* C3: a checker is launched by Check.run only for a Check whose
\* prerequisite_satisfied is true, the prerequisite of its checker having been
\* verified true.
C3_CheckerOnlyAfterPrerequisite ==
    \A i \in CheckerRuns :
        /\ satisfied[runlog[i].check]
        /\ CheckerOf(runlog[i].check) \in DOMAIN prereqs_checked
        /\ prereqs_checked[CheckerOf(runlog[i].check)]

\* Check.run was called for a Check whose prerequisite is not satisfied, and
\* has returned
C3_Witness ==
    /\ pc = "client"
    /\ \E c \in 1..Len(checks) :
          /\ <<"exec", c>> \in Range(entered)
          /\ ~satisfied[c]
          /\ RunsOf(c, "old") \cup RunsOf(c, "new") = {}

\* C4: in both phases every exception other than Aborted that leaves the block
\* of a Check is in context.errors, once and in the order of the run, and the
\* Checks that remain in the phase are still handled: a run in which no
\* Aborted was raised ends normally, having entered the block of every Check
\* in the prerequisite phase, and of every Check in the execution phase if
\* that phase was started.
C4_ErrorsRecordedRunGoesOn ==
    LET NotAborted(r) == r.type # "Aborted"
    IN  /\ Brief(errors) = Brief(SelectSeq(raised, NotAborted))
        /\ (pc = "end" /\ ~AbortedRaised) =>
              /\ phase = "done"
              /\ AllEntered("prereq")
              /\ (\E i \in DOMAIN entered : entered[i][1] = "exec") => AllEntered("exec")

\* the first Check of the execution phase failed and the second was still run
C4_Witness ==
    /\ pc = "end"
    /\ \E i \in DOMAIN errors : errors[i].phase = "exec" /\ errors[i].check = 1
    /\ RunsOf(2, "new") # {}

\* C5: Aborted is never in context.errors; when it is raised it leaves
\* Checks.run, and the block it left is the last one entered and its Popen the
\* last one made.
C5_AbortedStopsRun ==
    /\ \A i \in DOMAIN errors : errors[i].type # "Aborted"
    /\ \A k \in DOMAIN raised :
          raised[k].type = "Aborted" =>
              /\ k = Len(raised)
              /\ phase = "aborted" /\ pc = "end"
              /\ entered[Len(entered)] = <<raised[k].phase, raised[k].check>>
              /\ runlog[Len(runlog)].check = raised[k].check
              /\ runlog[Len(runlog)].call = raised[k].call

\* Aborted was raised while Checks remained
C5_Witness ==
    /\ phase = "aborted"
    /\ idx < Len(checks)
    /\ AbortedRaised

\* C6 as stated: when the dependency script of checker A has failed and the
\* prerequisite of checker B is satisfied, the run executes the Checks of B
\* and not those of A.
C6_OnlyDependentChecksBlocked ==
    (pc = "end" /\ phase = "done") =>
        \A a, b \in 1..Len(checks) :
            (DepsFailed(a) /\ satisfied[b]) =>
                /\ RunsOf(b, "new") # {}
                /\ RunsOf(a, "old") \cup RunsOf(a, "new") = {}

\* C6 amended: a failing dependency script does not stop the prerequisite
\* phase (the prerequisites of the other Checks are still verified, and a Check
\* whose checker has no failing dependency script gets prerequisite_satisfied
\* true), but no Check of the run is executed then, of whichever checker.
C6_FailedDepsBlocksExecution ==
    (pc = "end" /\ ~AbortedRaised /\ \E a \in 1..Len(checks) : DepsFailed(a)) =>
        /\ AllEntered("prereq")
        /\ \A b \in 1..Len(checks) : satisfied[b] = ~DepsFailed(b)
        /\ CheckerRuns = {}

\* the dependency script of one checker failed, the prerequisite of another
\* Check is satisfied, and the run has ended
C6_Witness ==
    /\ pc = "end" /\ phase = "done"
    /\ \E a, b \in 1..Len(checks) : DepsFailed(a) /\ satisfied[b]

\* C7: if a failure was recorded in the prerequisite phase, the execution phase
\* does not start: no checker is launched, for any Check.
C7_NoExecutionAfterPrerequisiteFailure ==
    (\E i \in DOMAIN errors : errors[i].phase = "prereq") =>
        /\ phase # "exec"
        /\ CheckerRuns = {}
        /\ \A i \in DOMAIN entered : entered[i][1] = "prereq"

\* the prerequisite phase recorded a failure, went on to the last Check, and
\* the run has ended
C7_Witness ==
    /\ phase = "done"
    /\ errors # <<>> /\ errors[1].phase = "prereq"
    /\ errors[1].check < Len(checks)
    /\ AllEntered("prereq")

\* C8: the dependency script of a checker is launched at most once in a run;
\* after the prerequisite phase every Check has prerequisite_satisfied equal to
\* the memoized outcome of its checker: true if there is no script or the
\* script succeeded, false if it failed.
C8_PrerequisiteMemoized ==
    /\ \A ck \in Checkers :
          /\ Cardinality(DepsRuns(ck)) <= 1
          /\ ck \notin deps_scripts => DepsRuns(ck) = {}
    /\ phase \in {"exec", "done"} =>
          \A c \in 1..Len(checks) :
              /\ CheckerOf(c) \in DOMAIN prereqs_checked
              /\ satisfied[c] = prereqs_checked[CheckerOf(c)]
              /\ satisfied[c] = ~DepsFailed(c)
              /\ (CheckerOf(c) \in deps_scripts) => Cardinality(DepsRuns(CheckerOf(c))) = 1

\* two Checks share a checker that has a dependency script, and the
\* prerequisite phase is over
C8_Witness ==
    /\ phase \in {"exec", "done"}
    /\ \E c, d \in 1..Len(checks) :
          /\ c # d
          /\ CheckerOf(c) = CheckerOf(d)
          /\ CheckerOf(c) \in deps_scripts
          /\ satisfied[c] /\ satisfied[d]

\* C9: the output run_script returns is everything its child wrote to its
\* standard output.
C9_OutputComplete ==
    last.outcome = "ok" => last.out = last.written

\* C10 as stated: in a run that executes its Checks and is not aborted, the
\* checker of every Check is run against the old tree iff the rule has no_new
\* and the old tree has the file, before the run against the new tree, and it
\* is always run against the new tree.
C10_NewTreeAlwaysRun ==
    ExecutionPhaseOver =>
        \A c \in 1..Len(checks) :
            /\ (RunsOf(c, "old") # {}) = (checks[c].no_new /\ checks[c].old_exists)
            /\ RunsOf(c, "new") # {}
            /\ \A i \in RunsOf(c, "old") : \A j \in RunsOf(c, "new") : i < j

\* C10 amended: ... and it is run against the new tree iff no run against the
\* old tree was made or that run returned its output; when the run against the
\* old tree ends with an error, that error is recorded and the checker is not
\* run against the new tree.
C10_NewTreeRunUnlessOldFailed ==
    ExecutionPhaseOver =>
        \A c \in 1..Len(checks) :
            /\ (RunsOf(c, "old") # {}) = (checks[c].no_new /\ checks[c].old_exists)
            /\ (RunsOf(c, "new") # {}) = ~RaisedIn(c, "old")
            /\ Cardinality(RunsOf(c, "old")) <= 1 /\ Cardinality(RunsOf(c, "new")) <= 1
            /\ \A i \in RunsOf(c, "old") : \A j \in RunsOf(c, "new") : i < j
            /\ RaisedIn(c, "old") =>
                  \E i \in DOMAIN errors : errors[i].check = c /\ errors[i].phase = "exec"

\* a run has ended in which one Check was run against the old tree and then
\* the new one, and another was run against the old tree only
C10_Witness ==
    /\ pc = "end" /\ phase = "done"
    /\ \E c, d \in 1..Len(checks) :
          /\ RunsOf(c, "old") # {} /\ RunsOf(c, "new") # {}
          /\ RunsOf(d, "old") # {} /\ RunsOf(d, "new") = {}

\* C11: the timeout is advisory: at most one warning per call, no child is
\* killed but by the interrupt handler, the call goes on only once the child
\* has been waited for, and a call with a timeout ends as one without: with
\* the child's whole output, RuntimeError or Aborted.
C11_TimeoutAdvisory ==
    /\ warnings <= 1 /\ last.warnings <= 1
    /\ \A p \in DOMAIN procs : procs[p].rc = KilledCode => nsig > 0
    /\ pc = "check" => procs[CurrentProcess].st = "reaped"
    /\ (last.at = "check" /\ Timeout(last.call) = "set") =>
          /\ last.outcome \in {"ok", "RuntimeError", "Aborted"}
          /\ last.outcome = "ok" => last.out = last.written

\* C12: when the interrupt occurs every child in flight (launched, not waited
\* for yet) is killed by the handler: none is left running.
C12_InterruptKillsInFlight ==
    [][nsig' # nsig => \A p \in DOMAIN procs' : procs'[p].st # "running"]_vars

\* the call of _diff_errors has been made
Filtered == driver = "client" /\ pc = "client" /\ entered # <<>>

\* C13: the filter is idempotent: _diff_errors(x, x) raises nothing, so that no
\* failure is recorded when the new output equals the old one.
C13_FilterIdempotent ==
    (Filtered /\ old_output = new_output) => (errors = <<>> /\ raised = <<>>)

\* _diff_errors was called with the same non-empty output of several lines,
\* two of them equal, one blank
C13_Witness ==
    /\ Filtered /\ old_output = new_output
    /\ old_output = JoinLines(<<Line1, <<>>, Line1>>)

\* C14: with an empty new output the filter reports nothing, whatever the old
\* output: _diff_errors(old, '') records no check failure.
C14_EmptyNewOutputNoFailure ==
    (Filtered /\ new_output = <<>>) => (errors = <<>> /\ raised = <<>>)

\* the lines of new_output outside the regions the alignment classifies as
\* unchanged, in order
RECURSIVE NotUnchanged(_, _, _)
NotUnchanged(ops, new_lines, j) ==
    IF j > Len(new_lines) THEN <<>>
    ELSE (IF \E k \in DOMAIN ops :
                  ops[k].tag = "equal" /\ ops[k].b0 < j /\ j <= ops[k].b1
          THEN <<>> ELSE <<new_lines[j]>>)
         \o NotUnchanged(ops, new_lines, j + 1)

\* the regions cover both outputs in order; an unchanged region has the same
\* lines on both sides, a deletion has no line of the new output, an insertion
\* none of the old
Aligned(ops, old_lines, new_lines) ==
    /\ ops # <<>> => /\ ops[1].a0 = 0 /\ ops[1].b0 = 0
                     /\ ops[Len(ops)].a1 = Len(old_lines)
                     /\ ops[Len(ops)].b1 = Len(new_lines)
    /\ \A k \in DOMAIN ops :
          /\ k > 1 => (ops[k].a0 = ops[k - 1].a1 /\ ops[k].b0 = ops[k - 1].b1)
          /\ ops[k].tag = "equal" =>
                SubSeq(old_lines, ops[k].a0 + 1, ops[k].a1)
                    = SubSeq(new_lines, ops[k].b0 + 1, ops[k].b1)
          /\ ops[k].tag = "delete" => (ops[k].b0 = ops[k].b1 /\ ops[k].a0 < ops[k].a1)
          /\ ops[k].tag = "insert" => (ops[k].a0 = ops[k].a1 /\ ops[k].b0 < ops[k].b1)
          /\ ops[k].tag = "replace" => (ops[k].a0 < ops[k].a1 /\ ops[k].b0 < ops[k].b1)

\* C15: for a non-empty old output the failure is raised iff the alignment has
\* an insertion or a replacement, and its report is made of the lines of the new
\* output in those regions, in order: unchanged regions and deletions add
\* nothing.  For old "line1\n" and new "line1\nline2\n" the body reported is
\* the line "line2".
C15_ReportIsInsertedAndReplacedLines ==
    (Filtered /\ old_output # <<>>) =>
        LET old_lines == Split(old_output)
            new_lines == Split(new_output)
            ops == GetOpcodes(old_lines, new_lines)
            added == NotUnchanged(ops, new_lines, 1)
        IN  /\ Aligned(ops, old_lines, new_lines)
            /\ (errors # <<>>) = (added # <<>>)
            /\ errors # <<>> =>
                  /\ Len(errors) = 1
                  /\ errors[1].type = "CheckFailedError"
                  /\ errors[1].report = JoinLines(added)
            /\ (old_output = Line1 \o <<"\n">>
                    /\ new_output = Line1 \o <<"\n">> \o Line2 \o <<"\n">>) =>
                  (errors # <<>> /\ ReportLines(errors[1].report) = <<Line2>>)

\* _diff_errors was called with old "line1\n" and new "line1\nline2\n" and
\* raised CheckFailedError
C15_Witness ==
    /\ Filtered
    /\ old_output = Line1 \o <<"\n">>
    /\ new_output = Line1 \o <<"\n">> \o Line2 \o <<"\n">>
    /\ errors # <<>>

\* the directories of the walk that have a PRECOMMIT file
ManifestsFound == {d \in directories : IsFile(PrecommitFile(d))}

\* every path component of d is the corresponding leading component of f
Under(d, f) ==
    LET dp == NonEmpty(SplitAt(d, "/"))
        fp == NonEmpty(SplitAt(f, "/"))
    IN  Len(dp) <= Len(fp) /\ \A k \in 1..Len(dp) : dp[k] = fp[k]

\* one of the strings of the pattern has n segments, and matches the last n
\* segments of f, which lie below d
MatchesBelow(d, pattern, f) ==
    LET dp == NonEmpty(SplitAt(d, "/"))
        fp == NonEmpty(SplitAt(f, "/"))
    IN  \E q \in 1..Len(pattern.strings) :
            LET ps == SplitAt(pattern.strings[q], "/")
                n == Len(ps)
            IN  /\ n >= 1 /\ n <= Len(fp) - Len(dp)
                /\ \A k \in 1..n : FnMatch(fp[Len(fp) - n + k], ps[k])

\* C16: resolution is directory-scoped: find_checks returns a Check for the
\* rule of the manifest of directory d and the file f iff f is a changed file
\* under d and the rule's pattern matches a trailing run of segments of f
\* below d that has as many segments as the pattern; a changed file outside d
\* gets no Check from the manifest of d.
C16_ResolutionDirectoryScoped ==
    pc = "returned" =>
        /\ {<<found[i].prefix, found[i].index, found[i].filename>> : i \in DOMAIN found}
              = {x \in ManifestsFound \X (1..MaxRules) \X Range(changed_files) :
                    /\ x[2] <= Len(Load(PrecommitFile(x[1])).rules)
                    /\ Under(x[1], x[3])
                    /\ MatchesBelow(x[1], Load(PrecommitFile(x[1])).rules[x[2]].pattern, x[3])}
        /\ \A i \in DOMAIN found :
              /\ found[i].rule = Load(PrecommitFile(found[i].prefix)).rules[found[i].index]
              /\ Under(found[i].prefix, found[i].filename)

\* the changed files are a/ab and ab/a, the only manifest is that of a/ with
\* the pattern '*b', and find_checks has returned one Check, for a/ab
C16_Witness ==
    /\ pc = "returned"
    /\ changed_files = <<<<"a", "/", "a", "b">>, <<"a", "b", "/", "a">>>>
    /\ ManifestsFound = {<<"a">>}
    /\ Len(found) = 1
    /\ found[1].filename = <<"a", "/", "a", "b">>
    /\ found[1].rule.pattern = [is_str |-> TRUE, strings |-> <<<<"*", "b">>>>]

\* C17: the Checks find_checks returns are deduplicated by rule and file: no
\* two of them have the same rule and the same file, also when the rule is that
\* of the manifests of several ancestor directories of the file.
C17_ChecksDeduplicated ==
    pc = "returned" =>
        \A i, j \in DOMAIN found :
            (found[i].rule = found[j].rule /\ found[i].filename = found[j].filename)
                => i = j

\* a rule list is malformed if it is empty or has a rule without pattern or check
Malformed(precommit) ==
    \/ ~precommit.has_rules
    \/ precommit.rules = <<>>
    \/ \E k \in 1..Len(precommit.rules) :
          ~precommit.rules[k].has_pattern \/ ~precommit.rules[k].has_check

\* C18: a malformed manifest in an ancestor directory of a changed file makes
\* find_checks fail with an error that names the manifest, no Checks are made
\* and nothing is executed.
C18_MalformedManifestFails ==
    (pc \in {"returned", "raised"}
        /\ \E d \in ManifestsFound : Malformed(Load(PrecommitFile(d)))) =>
        /\ pc = "raised"
        /\ failure.type = "RuntimeError"
        /\ \E d \in ManifestsFound :
              Malformed(Load(PrecommitFile(d))) /\ failure.file = PrecommitFile(d)
        /\ found = <<>>
        /\ runlog = <<>> /\ entered = <<>>

\* C20: the walk over the ancestor directories ends for every changed file,
\* and finds every ancestor directory of the file, the root directory included.
C20_AncestorWalkTerminates ==
    pc # "directories" =>
        /\ failure.message # "maximum recursion depth exceeded"
        /\ \A i \in DOMAIN changed_files :
              \A k \in 0..(Len(Components(changed_files[i])) - 1) :
                  \E d \in directories :
                      Components(d) = Take(Components(changed_files[i]), k)

\* C19: the registry holds the process of the run_script call in progress, from
\* right after its launch to the end of the call, and nothing else: it is
\* empty whenever no call is in progress and never holds two processes.
C19_RegistryHoldsInFlightOnly ==
    /\ Len(OPEN_PROCESSES) <= 1
    /\ pc \in {"loop", "client", "end", "popen", "append"} => OPEN_PROCESSES = <<>>
    /\ pc \in InTry => OPEN_PROCESSES = <<CurrentProcess>>

\* the run has ended by Aborted after a call that ended with RuntimeError:
\* two processes were launched, none is registered
C19_Witness ==
    /\ pc = "end" /\ last.outcome = "Aborted" /\ last.at = "check"
    /\ \E i \in DOMAIN errors : errors[i].type = "RuntimeError"
    /\ Len(procs) >= 2
    /\ OPEN_PROCESSES = <<>>

====
